---- MODULE Spec2Model ----
(***************************************************************************)
(* Model of the response pipeline of package rst (handlers.go): method     *)
(* dispatch, conditional requests, range requests and the response writer. *)
(*                                                                         *)
(* Strings that the code splits, compares or parses (ETags, header values) *)
(* are sequences of one-character strings; <<>> is the empty string, which *)
(* is also what Header.Get returns for an absent header.  Method names    *)
(* are such sequences too, since the code changes their case.  Header      *)
(* names and range units are atoms (TLA+ strings).  Times are counted in   *)
(* ticks, TicksPerSec ticks to the second, tick 0 being the zero           *)
(* time.Time.                                                              *)
(***************************************************************************)
EXTENDS Integers, Sequences, FiniteSets, TLC

VARIABLES endpoint, req, env, w, pc, verdicts

vars == <<endpoint, req, env, w, pc, verdicts>>

(***************************************************************************)
(* Bounds of the model.                                                    *)
(***************************************************************************)
TicksPerSec == 2
MaxSec == 2
MaxCount == 2

(***************************************************************************)
(* Method names and status codes.                                          *)
(***************************************************************************)
Options == <<"O", "P", "T", "I", "O", "N", "S">>
MethodHead == <<"H", "E", "A", "D">>
Get == <<"G", "E", "T">>
Patch == <<"P", "A", "T", "C", "H">>
Put == <<"P", "U", "T">>
Post == <<"P", "O", "S", "T">>
Delete == <<"D", "E", "L", "E", "T", "E">>

StatusOK == 200
StatusCreated == 201
StatusNoContent == 204
StatusPartialContent == 206
StatusNotModified == 304

\* The status codes of the errors (package rst, errors).
StatusNotFound == 404
StatusMethodNotAllowed == 405
StatusNotAcceptable == 406
StatusPreconditionFailed == 412
StatusRequestedRangeNotSatisfiable == 416
StatusInternalServerError == 500

\* The letters strings.ToUpper maps (method names are ASCII).
LowerLetters ==
    <<"a", "b", "c", "d", "e", "f", "g", "h", "i", "j", "k", "l", "m",
      "n", "o", "p", "q", "r", "s", "t", "u", "v", "w", "x", "y", "z">>

UpperLetters ==
    <<"A", "B", "C", "D", "E", "F", "G", "H", "I", "J", "K", "L", "M",
      "N", "O", "P", "Q", "R", "S", "T", "U", "V", "W", "X", "Y", "Z">>

\* unicode.ToUpper on one character: a lower-case letter becomes its
\* upper-case letter, any other character is left as it is.
ToUpperChar(c) ==
    IF \E i \in 1..Len(LowerLetters) : LowerLetters[i] = c
    THEN UpperLetters[CHOOSE i \in 1..Len(LowerLetters) : LowerLetters[i] = c]
    ELSE c

\* strings.ToUpper(s): every character of s mapped to upper case.
ToUpper(s) == [i \in 1..Len(s) |-> ToUpperChar(s[i])]

(***************************************************************************)
(* Strings.                                                                *)
(***************************************************************************)
\* strings.Split(s, sep) for a one-character separator: the pieces between
\* the separators, so that the empty string splits into one empty piece.
RECURSIVE Split(_, _)
Split(s, sep) ==
    IF \A i \in 1..Len(s) : s[i] # sep
    THEN <<s>>
    ELSE LET k == CHOOSE i \in 1..Len(s) :
                     s[i] = sep /\ \A j \in 1..(i - 1) : s[j] # sep
         IN  <<SubSeq(s, 1, k - 1)>> \o Split(SubSeq(s, k + 1, Len(s)), sep)

\* strings.Join(list, sep) of a list of atoms, kept as the list itself
\* tagged with its separator: two joins are equal exactly when the lists and
\* the separators are.
Join(list, sep) == [sep |-> sep, items |-> list]

(***************************************************************************)
(* HTTP dates: layout rfc1123, second precision.                           *)
(***************************************************************************)
Digits == <<"0", "1", "2", "3", "4", "5", "6", "7", "8", "9">>

DigitValue(c) == (CHOOSE i \in 1..Len(Digits) : Digits[i] = c) - 1

IsDigit(c) == \E i \in 1..Len(Digits) : Digits[i] = c

\* time.Time.UTC().Format(rfc1123): the whole seconds of t; the fraction of
\* a second is dropped.
FormatTime(t) == <<"D", Digits[(t \div TicksPerSec) + 1]>>

\* time.Parse(rfc1123, s): [err, t]; on an error t is the zero time.
ParseTime(s) ==
    IF Len(s) = 2 /\ s[1] = "D" /\ IsDigit(s[2])
    THEN [err |-> FALSE, t |-> DigitValue(s[2]) * TicksPerSec]
    ELSE [err |-> TRUE, t |-> 0]

(***************************************************************************)
(* http.Header and http.ResponseWriter.                                    *)
(***************************************************************************)
ResponseHeaders ==
    {"Vary", "Last-Modified", "ETag", "Expires", "Content-Type",
     "Content-Encoding", "Accept-Ranges", "Content-Range", "Allow", "Location"}

NoHeader == [h \in ResponseHeaders |-> <<>>]

\* A fresh ResponseWriter: header is the live header map, codes the
\* WriteHeader calls in order, sent the header map as it was at the first
\* WriteHeader (what goes on the wire), body the bytes written, calls the
\* collaborators invoked so far, in order.
NewWriter ==
    [header |-> NoHeader, codes |-> <<>>, sent |-> NoHeader, body |-> <<>>,
     calls |-> <<>>]

HeaderAdd(x, name, value) == [x EXCEPT !.header[name] = Append(@, value)]

HeaderSet(x, name, value) == [x EXCEPT !.header[name] = <<value>>]

HeaderPresent(x, name) == x.header[name] # <<>>

\* The first WriteHeader fixes the status and the headers of the response;
\* a later one changes neither.
WriteHeader(x, code) ==
    [x EXCEPT !.codes = Append(@, code),
              !.sent = IF x.codes = <<>> THEN x.header ELSE @]

\* Write sends an implicit 200 when no status was written yet.
Write(x, b) ==
    LET x1 == IF x.codes = <<>> THEN WriteHeader(x, StatusOK) ELSE x
    IN  [x1 EXCEPT !.body = @ \o b]

Called(x, what) == [x EXCEPT !.calls = Append(@, what)]

\* The status of the response: the first code written, or the implicit 200
\* of a handler that returned without writing.
Status(x) == IF x.codes = <<>> THEN StatusOK ELSE x.codes[1]

\* The headers of the response.
SentHeader(x) == IF x.codes = <<>> THEN x.header ELSE x.sent

\* r.Header.Get(name)
ReqGet(r, name) == r.header[name]

(***************************************************************************)
(* Errors.  An error value is [code, allow]; NoError is the nil error.     *)
(***************************************************************************)
NoError == [code |-> 0, allow |-> <<>>]

NotFound == [code |-> StatusNotFound, allow |-> <<>>]

PreconditionFailed == [code |-> StatusPreconditionFailed, allow |-> <<>>]

NotAcceptable == [code |-> StatusNotAcceptable, allow |-> <<>>]

RequestedRangeNotSatisfiable ==
    [code |-> StatusRequestedRangeNotSatisfiable, allow |-> <<>>]

InternalServerError == [code |-> StatusInternalServerError, allow |-> <<>>]

MethodNotAllowed(method, allowed) ==
    [code |-> StatusMethodNotAllowed, allow |-> allowed]

\* The description of an error, written as the body of its response.
ErrorBody(e) == <<"E">>

\* ErrorHandler(e).ServeHTTP(w, r): the headers of the error, its status
\* code and its description.
ErrorServeHTTP(e, x, r) ==
    LET x1 == IF e.allow # <<>>
              THEN HeaderSet(x, "Allow", Join(e.allow, ", "))
              ELSE x
        x2 == HeaderSet(x1, "Content-Type", "text/plain")
    IN  Write(WriteHeader(x2, e.code), ErrorBody(e))

writeError(e, x, r) == ErrorServeHTTP(e, x, r)

(***************************************************************************)
(* Collaborators of the response writer.                                   *)
(***************************************************************************)
\* time.Now()
Now == env.now

\* Marshal(resource, r): [contentType, b, err].
Marshal(resource, r) ==
    IF resource.marshalErr
    THEN [contentType |-> "", b |-> <<>>, err |-> NotAcceptable]
    ELSE [contentType |-> "application/json", b |-> resource.body,
          err |-> NoError]

\* getCompressionFormat(b, r): the encoding to apply, "" for none.
getCompressionFormat(b, r) ==
    IF b # <<>> /\ ReqGet(r, "Accept-Encoding") = <<"g">> THEN "gzip" ELSE ""

\* handler.ServeHTTP(w, r) for a resource that implements http.Handler.  The
\* handler is code of the resource, not of the package: the resource carries
\* what it writes for a HEAD request and for any other request (serve), and
\* the call writes that status and that body.
handlerServeHTTP(resource, x, r) ==
    LET out == IF r.method = MethodHead
               THEN resource.serve.head
               ELSE resource.serve.other
    IN  Write(WriteHeader(Called(x, "ServeHTTP"), out.code), out.body)

(***************************************************************************)
(* ValidateConditions and writeResource.                                   *)
(***************************************************************************)
\* ValidateConditions taking a date equal to the modification time for a
\* conflict.
ValidateConditions_NotAfter(resource, r) ==
    LET d == ParseTime(ReqGet(r, "If-Unmodified-Since"))
        etag == ReqGet(r, "If-Match")
    IN  (~d.err /\ d.t - resource.lastModified <= 0)
        \/ (etag # <<>> /\ etag # resource.etag)

ValidateConditions(resource, r) ==
    LET d == ParseTime(ReqGet(r, "If-Unmodified-Since"))
        etag == ReqGet(r, "If-Match")
    IN  IF ~d.err /\ d.t - resource.lastModified < 0
        THEN TRUE
        ELSE IF etag # <<>> /\ etag # resource.etag
             THEN TRUE
             ELSE FALSE

\* writeRepresentation returning for HEAD before the status is written.
writeRepresentation_HeadEarly(resource, x, r) ==
    LET m == Marshal(resource, r)
        x1 == Called(x, "Marshal")
        x2 == HeaderSet(x1, "Content-Type", m.contentType)
    IN  IF m.err # NoError
        THEN writeError(m.err, x1, r)
        ELSE IF ToUpper(r.method) = MethodHead
        THEN x2
        ELSE IF ToUpper(r.method) = Post
        THEN Write(WriteHeader(x2, StatusCreated), m.b)
        ELSE IF Len(m.b) = 0
        THEN WriteHeader(x2, StatusNoContent)
        ELSE IF HeaderPresent(x2, "Content-Range")
        THEN Write(WriteHeader(x2, StatusPartialContent), m.b)
        ELSE Write(WriteHeader(x2, StatusOK), m.b)

\* Lines 129-168: marshal, negotiate the encoding, choose the status, write.
writeRepresentation(resource, x, r) ==
    LET m == Marshal(resource, r)
        x1 == Called(x, "Marshal")
        x2 == HeaderSet(x1, "Content-Type", m.contentType)
        compression == getCompressionFormat(m.b, r)
        x3 == IF compression # ""
              THEN HeaderAdd(HeaderSet(x2, "Content-Encoding", compression),
                             "Vary", "Accept-Encoding")
              ELSE x2
    IN  IF m.err # NoError
        THEN writeError(m.err, x1, r)
        ELSE IF ToUpper(r.method) = Post
        THEN Write(WriteHeader(x3, StatusCreated), m.b)
        ELSE IF Len(m.b) = 0
        THEN WriteHeader(x3, StatusNoContent)
        ELSE LET x4 == IF HeaderPresent(x3, "Content-Range")
                       THEN WriteHeader(x3, StatusPartialContent)
                       ELSE WriteHeader(x3, StatusOK)
             IN  IF ToUpper(r.method) = MethodHead THEN x4 ELSE Write(x4, m.b)

\* Lines 116-120: the headers of a representation.
resourceHeaders(resource, x) ==
    LET x1 == HeaderAdd(x, "Vary", "Accept")
        x2 == HeaderSet(x1, "Last-Modified", FormatTime(resource.lastModified))
        x3 == HeaderSet(x2, "ETag", resource.etag)
    IN  HeaderSet(x3, "Expires", FormatTime(Now + resource.ttl))

\* Lines 100-106: time-based conditional retrieval.
notModifiedSince(resource, r) ==
    LET t == ParseTime(ReqGet(r, "If-Modified-Since"))
    IN  ~t.err /\ t.t - resource.lastModified >= 0

\* Lines 108-114: ETag-based conditional retrieval.
noneMatch(resource, r) ==
    LET ts == Split(ReqGet(r, "If-None-Match"), ";")
    IN  \E i \in 1..Len(ts) : ts[i] = resource.etag

writeResource(resource, x, r) ==
    IF notModifiedSince(resource, r)
    THEN WriteHeader(x, StatusNotModified)
    ELSE IF noneMatch(resource, r)
    THEN WriteHeader(x, StatusNotModified)
    ELSE LET x1 == resourceHeaders(resource, x)
         IN  IF resource.handler
             THEN handlerServeHTTP(resource, x1, r)
             ELSE writeRepresentation(resource, x1, r)

(***************************************************************************)
(* Range requests.  A Range header value is a sequence of characters such  *)
(* as <<"b","=","0","-","1">>; the unit is its first character.  A bound   *)
(* the header leaves open is Absent.                                       *)
(***************************************************************************)
Absent == -1

NoRange == [Unit |-> "", From |-> Absent, To |-> Absent]

\* ParseRange(s): [err, rg], for the forms u=a-b, u=a- and u=-n.
ParseRange(s) ==
    IF Len(s) = 5 /\ s[2] = "=" /\ IsDigit(s[3]) /\ s[4] = "-" /\ IsDigit(s[5])
    THEN [err |-> FALSE,
          rg |-> [Unit |-> s[1], From |-> DigitValue(s[3]),
                  To |-> DigitValue(s[5])]]
    ELSE IF Len(s) = 4 /\ s[2] = "=" /\ IsDigit(s[3]) /\ s[4] = "-"
    THEN [err |-> FALSE,
          rg |-> [Unit |-> s[1], From |-> DigitValue(s[3]), To |-> Absent]]
    ELSE IF Len(s) = 4 /\ s[2] = "=" /\ s[3] = "-" /\ IsDigit(s[4])
    THEN [err |-> FALSE,
          rg |-> [Unit |-> s[1], From |-> Absent, To |-> DigitValue(s[4])]]
    ELSE [err |-> TRUE, rg |-> NoRange]

\* Units() and Count() of a Ranger.
Units(ranger) == ranger.units

Count(ranger) == ranger.count

\* rg.validate(ranger): TRUE when rg is not a valid range of the resource,
\* its unit unsupported or its span out of bounds.
validateFails(rg, ranger) ==
    \/ \A i \in 1..Len(Units(ranger)) : Units(ranger)[i] # rg.Unit
    \/ rg.From # Absent /\ rg.From >= Count(ranger)
    \/ rg.From # Absent /\ rg.To # Absent
         /\ (rg.To < rg.From \/ rg.To >= Count(ranger))

\* rg.adjust(ranger): [err, rg], the open bounds resolved against Count().
adjust(rg, ranger) ==
    IF rg.From = Absent
    THEN IF rg.To = 0 \/ rg.To > Count(ranger)
         THEN [err |-> RequestedRangeNotSatisfiable, rg |-> rg]
         ELSE [err |-> NoError,
               rg |-> [rg EXCEPT !.From = Count(ranger) - rg.To,
                                 !.To = Count(ranger) - 1]]
    ELSE IF rg.To = Absent
    THEN [err |-> NoError, rg |-> [rg EXCEPT !.To = Count(ranger) - 1]]
    ELSE [err |-> NoError, rg |-> rg]

\* ranger.Range(rg), as in the example of the Ranger interface: the content
\* range is the requested range over Count(), with the part of the resource
\* it addresses.
Range(ranger, rg) ==
    IF ranger.rangeErr
    THEN [err |-> InternalServerError,
          cr |-> [Unit |-> rg.Unit, From |-> 0, To |-> 0, Total |-> 0],
          partial |-> ranger.partial]
    ELSE [err |-> NoError,
          cr |-> [Unit |-> rg.Unit, From |-> rg.From, To |-> rg.To,
                  Total |-> Count(ranger)],
          partial |-> ranger.partial]

\* ContentRange.String(): "<unit> <from>-<to>/<total>".
ContentRangeString(cr) == <<cr.Unit, cr.From, cr.To, cr.Total>>

(***************************************************************************)
(* The method handlers.  op is what the endpoint's operation returns for   *)
(* the request: [err, isNil, resource, location].                          *)
(***************************************************************************)
\* Lines 222-231: TRUE when the If-Range precondition fails.
ifRangeFails(resource, r) ==
    LET raw == ReqGet(r, "If-Range")
        date == ParseTime(raw).t
    IN  raw # <<>> /\ date # resource.lastModified /\ raw # resource.etag

\* servePartial setting Content-Range only when both ends of the span
\* differ from the ends of the resource.
servePartial_BothEnds(resource, rg, x, r) ==
    LET a == adjust(rg, resource)
        x1 == Called(x, "adjust")
        p == Range(resource, a.rg)
        x2 == Called(x1, "Range")
        x3 == HeaderAdd(x2, "Vary", "Range")
        x4 == IF p.cr.From # 0 /\ p.cr.To # p.cr.Total - 1
              THEN HeaderSet(x3, "Content-Range", ContentRangeString(p.cr))
              ELSE x3
    IN  IF a.err # NoError
        THEN writeError(a.err, x1, r)
        ELSE IF p.err # NoError
        THEN writeError(p.err, x2, r)
        ELSE writeResource(p.partial, x4, r)

\* servePartial adding Vary: Range before the range is adjusted.
servePartial_VaryEarly(resource, rg, x, r) ==
    LET a == adjust(rg, resource)
        x1 == Called(HeaderAdd(x, "Vary", "Range"), "adjust")
        p == Range(resource, a.rg)
        x2 == Called(x1, "Range")
        x4 == IF p.cr.From # 0 \/ p.cr.To # p.cr.Total - 1
              THEN HeaderSet(x2, "Content-Range", ContentRangeString(p.cr))
              ELSE x2
    IN  IF a.err # NoError
        THEN writeError(a.err, x1, r)
        ELSE IF p.err # NoError
        THEN writeError(p.err, x2, r)
        ELSE writeResource(p.partial, x4, r)

\* servePartial falling back to the full resource when adjust fails.
servePartial_FallBack(resource, rg, x, r) ==
    LET a == adjust(rg, resource)
        x1 == Called(x, "adjust")
        p == Range(resource, a.rg)
        x2 == Called(x1, "Range")
        x3 == HeaderAdd(x2, "Vary", "Range")
        x4 == IF p.cr.From # 0 \/ p.cr.To # p.cr.Total - 1
              THEN HeaderSet(x3, "Content-Range", ContentRangeString(p.cr))
              ELSE x3
    IN  IF a.err # NoError
        THEN writeResource(resource, x1, r)
        ELSE IF p.err # NoError
        THEN writeError(p.err, x2, r)
        ELSE writeResource(p.partial, x4, r)

\* Lines 233-248: adjust the range, take the part, write it.
servePartial(resource, rg, x, r) ==
    LET a == adjust(rg, resource)
        x1 == Called(x, "adjust")
        p == Range(resource, a.rg)
        x2 == Called(x1, "Range")
        x3 == HeaderAdd(x2, "Vary", "Range")
        x4 == IF p.cr.From # 0 \/ p.cr.To # p.cr.Total - 1
              THEN HeaderSet(x3, "Content-Range", ContentRangeString(p.cr))
              ELSE x3
    IN  IF a.err # NoError
        THEN writeError(a.err, x1, r)
        ELSE IF p.err # NoError
        THEN writeError(p.err, x2, r)
        ELSE writeResource(p.partial, x4, r)

\* getFunc setting Accept-Ranges only once the Range header was accepted.
getFunc_AcceptRangesLate(op, x, r) ==
    LET x0 == Called(x, "Get")
        resource == op.resource
        x1 == HeaderSet(x0, "Accept-Ranges", Join(Units(resource), ", "))
        pr == ParseRange(ReqGet(r, "Range"))
    IN  IF op.err # NoError
        THEN writeError(op.err, x0, r)
        ELSE IF op.isNil
        THEN WriteHeader(x0, StatusNoContent)
        ELSE IF ~resource.ranger
        THEN writeResource(resource, x0, r)
        ELSE IF pr.err \/ validateFails(pr.rg, resource)
        THEN writeResource(resource, x0, r)
        ELSE IF ifRangeFails(resource, r)
        THEN writeResource(resource, x0, r)
        ELSE servePartial(resource, pr.rg, x1, r)

\* getFunc rejecting a Range header that parses but is not a valid range of
\* the resource.
getFunc_RejectInvalid(op, x, r) ==
    LET x0 == Called(x, "Get")
        resource == op.resource
        x1 == HeaderSet(x0, "Accept-Ranges", Join(Units(resource), ", "))
        pr == ParseRange(ReqGet(r, "Range"))
    IN  IF op.err # NoError
        THEN writeError(op.err, x0, r)
        ELSE IF op.isNil
        THEN WriteHeader(x0, StatusNoContent)
        ELSE IF ~resource.ranger
        THEN writeResource(resource, x0, r)
        ELSE IF pr.err
        THEN writeResource(resource, x1, r)
        ELSE IF validateFails(pr.rg, resource)
        THEN writeError(RequestedRangeNotSatisfiable, x1, r)
        ELSE IF ifRangeFails(resource, r)
        THEN writeResource(resource, x1, r)
        ELSE servePartial(resource, pr.rg, x1, r)

getFunc(op, x, r) ==
    LET x0 == Called(x, "Get")
        resource == op.resource
        x1 == HeaderSet(x0, "Accept-Ranges", Join(Units(resource), ", "))
        pr == ParseRange(ReqGet(r, "Range"))
    IN  IF op.err # NoError
        THEN writeError(op.err, x0, r)
        ELSE IF op.isNil
        THEN WriteHeader(x0, StatusNoContent)
        ELSE IF ~resource.ranger
        THEN writeResource(resource, x0, r)
        ELSE IF pr.err \/ validateFails(pr.rg, resource)
        THEN writeResource(resource, x1, r)
        ELSE IF ifRangeFails(resource, r)
        THEN writeResource(resource, x1, r)
        ELSE servePartial(resource, pr.rg, x1, r)

patchFunc(op, x, r) ==
    LET x0 == Called(x, "Patch")
        x1 == WriteHeader(x0, StatusOK)
    IN  IF op.err # NoError
        THEN writeError(op.err, x0, r)
        ELSE IF op.isNil
        THEN x1
        ELSE writeResource(op.resource, x1, r)

putFunc(op, x, r) ==
    LET x0 == Called(x, "Put")
        x1 == WriteHeader(x0, StatusOK)
    IN  IF op.err # NoError
        THEN writeError(op.err, x0, r)
        ELSE IF op.isNil
        THEN x1
        ELSE writeResource(op.resource, x1, r)

postFunc(op, x, r) ==
    LET x0 == Called(x, "Post")
        x1 == IF op.location # <<>>
              THEN HeaderAdd(x0, "Location", op.location)
              ELSE x0
    IN  IF op.err # NoError
        THEN writeError(op.err, x0, r)
        ELSE IF op.isNil
        THEN WriteHeader(x1, StatusCreated)
        ELSE writeResource(op.resource, x1, r)

\* deleteFunc answering a successful Delete with 200.
deleteFunc_OK(op, x, r) ==
    LET x0 == Called(x, "Delete")
    IN  IF op.err # NoError
        THEN writeError(op.err, x0, r)
        ELSE WriteHeader(x0, StatusOK)

deleteFunc(op, x, r) ==
    LET x0 == Called(x, "Delete")
    IN  IF op.err # NoError
        THEN writeError(op.err, x0, r)
        ELSE WriteHeader(x0, StatusNoContent)

(***************************************************************************)
(* Dispatch.  An endpoint is the set of interfaces it implements.          *)
(***************************************************************************)
Interfaces == {"Getter", "Patcher", "Putter", "Poster", "Deleter"}

\* The representations the service is configured with.
alternatives == <<"application/json">>

\* supportedMethods listing GET before HEAD.
supportedMethods_GetFirst == <<Get, MethodHead, Patch, Put, Post, Delete>>

supportedMethods == <<MethodHead, Get, Patch, Put, Post, Delete>>

\* getMethodHandler: the handler bound to the method, "nil" for none.
getMethodHandler(ep, method) ==
    LET m == ToUpper(method)
    IN  CASE m = Options -> "optionsHandler"
          [] m \in {MethodHead, Get} /\ "Getter" \in ep -> "getFunc"
          [] m = Patch /\ "Patcher" \in ep -> "patchFunc"
          [] m = Put /\ "Putter" \in ep -> "putFunc"
          [] m = Post /\ "Poster" \in ep -> "postFunc"
          [] m = Delete /\ "Deleter" \in ep -> "deleteFunc"
          [] OTHER -> "nil"

\* AllowedMethods leaving HEAD out of the methods it tries.
AllowedMethods_NoHead(ep) ==
    SelectSeq(Tail(supportedMethods),
              LAMBDA m : getMethodHandler(ep, m) # "nil")

AllowedMethods(ep) ==
    SelectSeq(supportedMethods, LAMBDA m : getMethodHandler(ep, m) # "nil")

optionsHandler(ep, x, r) ==
    IF r.method # Options
    THEN x
    ELSE LET x1 == HeaderSet(x, "Allow", Join(AllowedMethods(ep), ", "))
             x2 == HeaderSet(x1, "Content-Type", Join(alternatives, ";"))
         IN  WriteHeader(x2, StatusNoContent)

\* endpointHandler.ServeHTTP answering every unsupported method with 404.
ServeHTTP_AlwaysNotFound(ep, op, x, r) ==
    LET h == getMethodHandler(ep, r.method)
    IN  CASE h = "optionsHandler" -> optionsHandler(ep, x, r)
          [] h = "getFunc" -> getFunc(op, x, r)
          [] h = "patchFunc" -> patchFunc(op, x, r)
          [] h = "putFunc" -> putFunc(op, x, r)
          [] h = "postFunc" -> postFunc(op, x, r)
          [] h = "deleteFunc" -> deleteFunc(op, x, r)
          [] OTHER -> ErrorServeHTTP(NotFound, x, r)

\* endpointHandler.ServeHTTP
ServeHTTP(ep, op, x, r) ==
    LET h == getMethodHandler(ep, r.method)
        allowed == AllowedMethods(ep)
    IN  CASE h = "optionsHandler" -> optionsHandler(ep, x, r)
          [] h = "getFunc" -> getFunc(op, x, r)
          [] h = "patchFunc" -> patchFunc(op, x, r)
          [] h = "putFunc" -> putFunc(op, x, r)
          [] h = "postFunc" -> postFunc(op, x, r)
          [] h = "deleteFunc" -> deleteFunc(op, x, r)
          [] OTHER ->
               IF Len(allowed) > 0
               THEN ErrorServeHTTP(MethodNotAllowed(r.method, allowed), x, r)
               ELSE ErrorServeHTTP(NotFound, x, r)

(***************************************************************************)
(* Requests, resources and operation outcomes the model draws from.        *)
(***************************************************************************)
RequestHeaders ==
    {"If-Modified-Since", "If-None-Match", "If-Match", "If-Unmodified-Since",
     "Range", "If-Range", "Accept-Encoding"}

NoRequestHeader == [h \in RequestHeaders |-> <<>>]

NoRequest == [method |-> "", header |-> NoRequestHeader]

\* Modification times: the zero time, a whole second, and a time with a
\* fraction of a second.
LastModifieds == {0, TicksPerSec, TicksPerSec + 1}

\* The date of the whole second above, as a header value.
DateHeader == FormatTime(TicksPerSec)

ETags == {<<>>, <<"a">>}

\* A resource that is neither a Ranger nor an http.Handler.
PlainResource(etag, lm, body, marshalErr) ==
    [etag |-> etag, lastModified |-> lm, ttl |-> TicksPerSec,
     handler |-> FALSE, ranger |-> FALSE, marshalErr |-> marshalErr,
     body |-> body]

NoResource == PlainResource(<<>>, 0, <<>>, FALSE)

\* What the ServeHTTP of a resource writes: a handler that ignores the
\* method, one that leaves the body out for HEAD, and one that also answers
\* HEAD with another status.
HandlerServes ==
    {[head |-> [code |-> StatusOK, body |-> <<"x">>],
      other |-> [code |-> StatusOK, body |-> <<"x">>]],
     [head |-> [code |-> StatusOK, body |-> <<>>],
      other |-> [code |-> StatusOK, body |-> <<"x">>]],
     [head |-> [code |-> StatusNoContent, body |-> <<>>],
      other |-> [code |-> StatusOK, body |-> <<"x">>]]}

\* A resource that implements http.Handler.
HandlerResource(etag, lm, serve) ==
    [etag |-> etag, lastModified |-> lm, ttl |-> TicksPerSec,
     handler |-> TRUE, ranger |-> FALSE, marshalErr |-> FALSE,
     body |-> <<"x">>, serve |-> serve]

Resources ==
    UNION {{PlainResource(e, lm, <<>>, FALSE),
            PlainResource(e, lm, <<"x">>, FALSE),
            PlainResource(e, lm, <<>>, TRUE)}
           \cup {HandlerResource(e, lm, sv) : sv \in HandlerServes} :
           <<e, lm>> \in ETags \X {TicksPerSec, TicksPerSec + 1}}

\* What Range returns as the part of a Ranger with the given ETag.
Partials(etag, lm) ==
    {PlainResource(etag, lm, <<"p">>, FALSE),
     PlainResource(<<"b">>, lm, <<"p">>, FALSE),
     PlainResource(etag, lm, <<>>, FALSE),
     PlainResource(etag, lm, <<>>, TRUE)}

Rangers ==
    UNION {{[etag |-> e, lastModified |-> lm, ttl |-> TicksPerSec,
             handler |-> FALSE, ranger |-> TRUE, marshalErr |-> me,
             body |-> IF me THEN <<>> ELSE <<"x">>, units |-> <<"b">>,
             count |-> c, rangeErr |-> FALSE, partial |-> p] :
            <<c, me, p>> \in {0, MaxCount} \X BOOLEAN \X Partials(e, lm)}
           \cup
           {[etag |-> e, lastModified |-> lm, ttl |-> TicksPerSec,
             handler |-> FALSE, ranger |-> TRUE, marshalErr |-> FALSE,
             body |-> <<"x">>, units |-> <<"b">>, count |-> MaxCount,
             rangeErr |-> TRUE, partial |-> PlainResource(e, lm, <<"p">>, FALSE)]} :
           <<e, lm>> \in ETags \X LastModifieds}

Failed(e) ==
    [err |-> e, isNil |-> TRUE, resource |-> NoResource, location |-> <<>>]

Returned(resource, location) ==
    [err |-> NoError, isNil |-> FALSE, resource |-> resource,
     location |-> location]

ReturnedNil(location) ==
    [err |-> NoError, isNil |-> TRUE, resource |-> NoResource,
     location |-> location]

Outcomes ==
    {Failed(NotFound), Failed(PreconditionFailed), ReturnedNil(<<>>),
     ReturnedNil(<<"u">>)}
    \cup {Returned(res, <<"u">>) : res \in Resources}

RangerOutcomes == {Returned(res, <<>>) : res \in Rangers}

\* A method the package does not know.
Trace == <<"T", "R", "A", "C", "E">>

\* The methods sent: the seven the package knows, one it does not, and
\* spellings in lower and mixed case.
Methods ==
    {Options, MethodHead, Get, Patch, Put, Post, Delete, Trace,
     <<"o", "p", "t", "i", "o", "n", "s">>, <<"p", "o", "s", "t">>,
     <<"p", "a", "t", "c", "h">>, <<"H", "e", "a", "d">>}

\* Requests to any endpoint, with the headers of a cache revalidation.
Requests ==
    {[method |-> m,
      header |-> [NoRequestHeader EXCEPT !["If-None-Match"] = inm,
                                         !["If-Modified-Since"] = ims,
                                         !["Accept-Encoding"] = ae]] :
     <<m, inm, ims, ae>> \in
         Methods \X {<<>>, <<"a">>} \X {<<>>, DateHeader} \X {<<>>, <<"g">>}}

RangeHeaders ==
    {<<>>, <<"x">>, <<"b", "=", "0", "-", "0">>, <<"b", "=", "0", "-", "1">>,
     <<"i", "=", "0", "-", "0">>, <<"b", "=", "0", "-", "9">>,
     <<"b", "=", "-", "0">>, <<"b", "=", "-", "1">>, <<"b", "=", "1", "-">>,
     <<"b", "=", "0", "-">>}

\* GET and HEAD requests with the headers of a range request.
RangeRequests ==
    {[method |-> m,
      header |-> [NoRequestHeader EXCEPT !["If-None-Match"] = inm,
                                         !["If-Modified-Since"] = ims,
                                         !["Range"] = rg,
                                         !["If-Range"] = ir]] :
     <<m, inm, ims, rg, ir>> \in
         {Get, MethodHead} \X {<<>>, <<"a">>, <<"b", ";", "a">>}
         \X {<<>>, DateHeader} \X RangeHeaders
         \X {<<>>, <<"a">>, DateHeader, <<"z">>}}

\* Requests with the headers ValidateConditions reads.
ConditionRequests ==
    {[method |-> m,
      header |-> [NoRequestHeader EXCEPT !["If-Unmodified-Since"] = ius,
                                         !["If-Match"] = im]] :
     <<m, ius, im>> \in
         {Patch, Put}
         \X {<<>>, <<"x">>, FormatTime(0), DateHeader,
             FormatTime(MaxSec * TicksPerSec)}
         \X {<<>>, <<"a">>, <<"b">>}}

Env(op) == [now |-> MaxSec * TicksPerSec, op |-> op]

(***************************************************************************)
(* The state machine: a request is received, then served.                  *)
(***************************************************************************)
Idle(eps) ==
    /\ endpoint \in eps
    /\ req = NoRequest
    /\ env = Env(ReturnedNil(<<>>))
    /\ w = NewWriter
    /\ pc = "idle"
    /\ verdicts = <<>>

Receive(requests, outcomes) ==
    /\ pc = "idle"
    /\ req' \in requests
    /\ env' \in {Env(op) : op \in outcomes}
    /\ w' = NewWriter
    /\ pc' = "received"
    /\ UNCHANGED <<endpoint, verdicts>>

\* endpointHandler.ServeHTTP on the request received.
Serve ==
    /\ pc = "received"
    /\ w' = ServeHTTP(endpoint, env.op, w, req)
    /\ pc' = "done"
    /\ UNCHANGED <<endpoint, req, env, verdicts>>

\* The endpoint's operation calls ValidateConditions on the resource it
\* looked up, as in the examples of Patcher and Putter.
CallValidateConditions ==
    /\ pc = "received"
    /\ Len(verdicts) < 2
    /\ verdicts' = Append(verdicts, ValidateConditions(env.op.resource, req))
    /\ UNCHANGED <<endpoint, req, env, w, pc>>

\* Any endpoint, any method.
Init == Idle(SUBSET Interfaces)

ReceiveAny == Receive(Requests, Outcomes)

Next == ReceiveAny \/ Serve

Spec == Init /\ [][Next]_vars

\* Range requests to an endpoint that implements Getter.
InitGet == Idle({{"Getter"}, Interfaces})

ReceiveRange == Receive(RangeRequests, RangerOutcomes)

NextGet == ReceiveRange \/ Serve

SpecGet == InitGet /\ [][NextGet]_vars

\* Write-conflict detection by the operations of an endpoint.
InitCond == Idle({{"Patcher", "Putter"}})

ReceiveCondition ==
    Receive(ConditionRequests,
            {Returned(PlainResource(e, lm, <<"x">>, FALSE), <<>>) :
             <<e, lm>> \in {<<>>, <<"a">>, <<"b">>} \X LastModifieds})

NextCond == ReceiveCondition \/ CallValidateConditions

SpecCond == InitCond /\ [][NextCond]_vars

(***************************************************************************)
(* Properties.                                                             *)
(***************************************************************************)
Done == pc = "done"

Invoked(x, what) == \E i \in 1..Len(x.calls) : x.calls[i] = what

IsRead(r) == ToUpper(r.method) \in {Get, MethodHead}

\* The operation returned a resource (no error, not nil).
GotResource == env.op.err = NoError /\ ~env.op.isNil

\* The entries of the request's If-None-Match list.
NoneMatchEntries(r) ==
    LET ts == Split(r.header["If-None-Match"], ";")
    IN  {ts[i] : i \in 1..Len(ts)}

\* The methods an endpoint implements, from its interfaces.
ImplementedMethods(ep) ==
    (IF "Getter" \in ep THEN {MethodHead, Get} ELSE {})
    \cup (IF "Patcher" \in ep THEN {Patch} ELSE {})
    \cup (IF "Putter" \in ep THEN {Put} ELSE {})
    \cup (IF "Poster" \in ep THEN {Post} ELSE {})
    \cup (IF "Deleter" \in ep THEN {Delete} ELSE {})

\* The set of methods an Allow header lists, {} when the header is not set.
AllowSet(x) ==
    IF SentHeader(x)["Allow"] = <<>>
    THEN {}
    ELSE LET a == SentHeader(x)["Allow"][1].items
         IN  {a[i] : i \in 1..Len(a)}

OperationNames == {"Get", "Patch", "Put", "Post", "Delete"}

NoOperationInvoked(x) == \A o \in OperationNames : ~Invoked(x, o)

\* C1 (as claimed): every GET or HEAD whose If-None-Match lists the current
\* ETag of the resource returned by Get is answered 304 with no body, with
\* or without Range and If-Range, for a Ranger or not.
C1_NoneMatchAlways304 ==
    (Done /\ IsRead(req) /\ GotResource
       /\ req.header["If-None-Match"] # <<>>
       /\ env.op.resource.etag \in NoneMatchEntries(req))
    => (Status(w) = StatusNotModified /\ w.body = <<>>)

\* C2: an OPTIONS request invokes no operation of the endpoint, is answered
\* 204 with an Allow header listing exactly the methods the endpoint
\* implements, and any other OPTIONS request to the endpoint gets the same
\* Allow header.
C2_Options ==
    (Done /\ req.method = Options)
    => /\ Status(w) = StatusNoContent
       /\ NoOperationInvoked(w)
       /\ w.body = <<>>
       /\ Len(SentHeader(w)["Allow"]) = 1
       /\ AllowSet(w) = ImplementedMethods(endpoint)
       /\ \A r2 \in Requests :
            r2.method = Options
            => SentHeader(ServeHTTP(endpoint, env.op, NewWriter, r2))["Allow"]
                 = SentHeader(w)["Allow"]

C2_Witness ==
    /\ Done /\ req.method = Options
    /\ endpoint = {"Getter", "Poster"}
    /\ AllowSet(w) = {MethodHead, Get, Post}

\* C3: a method that resolves to no handler is answered 405 with the
\* Allow-list when the endpoint implements some method and 404 when it
\* implements none, and no operation of the endpoint is invoked.
C3_Unsupported ==
    (Done /\ ToUpper(req.method) # Options
       /\ ToUpper(req.method) \notin ImplementedMethods(endpoint))
    => /\ NoOperationInvoked(w)
       /\ IF ImplementedMethods(endpoint) # {}
          THEN /\ Status(w) = StatusMethodNotAllowed
               /\ AllowSet(w) = ImplementedMethods(endpoint)
          ELSE Status(w) = StatusNotFound

C3_Witness ==
    /\ Done /\ req.method = Put /\ endpoint = {"Getter"}
    /\ Status(w) = StatusMethodNotAllowed
    /\ AllowSet(w) = {MethodHead, Get}

C3_WitnessNotFound ==
    Done /\ req.method = Trace /\ endpoint = {} /\ Status(w) = StatusNotFound

\* The same request with another method.
WithMethod(r, m) == [r EXCEPT !.method = m]

\* The response to request r when the operation returns op.
Response(op, r) == ServeHTTP(endpoint, op, NewWriter, r)

\* The response was written by the error handler.
IsErrorResponse(x) == Status(x) >= 400

\* The request revalidates resource res: its If-Modified-Since is not
\* earlier than the modification time, or its If-None-Match lists the ETag.
Revalidates(r, res) ==
    \/ LET t == ParseTime(r.header["If-Modified-Since"])
       IN  ~t.err /\ t.t >= res.lastModified
    \/ res.etag \in NoneMatchEntries(r)

\* Get returned a resource that writes the response itself.
IsDirectWriter(op) == ~op.isNil /\ op.resource.handler

C4_HeadLikeGetUnlessDirect ==
    (Done /\ req.method = MethodHead)
    => \A op \in {o \in {env.op} \cup Outcomes : ~IsDirectWriter(o)} :
         LET h == Response(op, req)
             g == Response(op, WithMethod(req, Get))
         IN  /\ Status(h) = Status(g)
             /\ SentHeader(h) = SentHeader(g)
             /\ h.codes = g.codes
             /\ ~IsErrorResponse(h) => h.body = <<>>
             /\ IsErrorResponse(h) => h.body = g.body /\ h.body # <<>>

\* C4 (amended, resources that write the response themselves): unless the
\* request revalidates the resource, the status and the body of the HEAD
\* response are what the ServeHTTP of the resource writes for HEAD.
C4_DirectWriterDecides ==
    (Done /\ req.method = MethodHead)
    => \A op \in {o \in Outcomes : IsDirectWriter(o)} :
         LET h == Response(op, req)
         IN  IF Revalidates(req, op.resource)
             THEN Status(h) = StatusNotModified /\ h.body = <<>>
             ELSE /\ Status(h) = op.resource.serve.head.code
                  /\ h.body = op.resource.serve.head.body

C4_WitnessError ==
    /\ Done /\ req.method = MethodHead /\ GotResource
    /\ env.op.resource.marshalErr
    /\ Status(w) = StatusNotAcceptable
    /\ w.body # <<>>

RangeServed ==
    /\ Done /\ req.method = Get /\ GotResource
    /\ env.op.resource.ranger
    /\ Invoked(w, "Range")
    /\ ~env.op.resource.rangeErr

\* The content range Range() returned for the request.
ServedRange ==
    LET ranger == env.op.resource
    IN  Range(ranger, adjust(ParseRange(req.header["Range"]).rg, ranger).rg).cr

IsWhole(cr) == cr.From = 0 /\ cr.To = cr.Total - 1

IsStrictSubset(cr) ==
    /\ 0 <= cr.From /\ cr.From <= cr.To /\ cr.To <= cr.Total - 1
    /\ ~IsWhole(cr)

\* C5 (as claimed): for a GET served through Range(), Content-Range is set
\* exactly when the span is not the whole resource, and the status is 206
\* exactly when the span is a strict subset of [0, Total-1] (a request that
\* revalidates the part being answered 304 instead).
C5_PartialIff206 ==
    RangeServed
    => /\ (SentHeader(w)["Content-Range"] # <<>>) <=> ~IsWhole(ServedRange)
       /\ ~Revalidates(req, env.op.resource.partial)
            => ((Status(w) = StatusPartialContent)
                  <=> IsStrictSubset(ServedRange))

\* C5 (amended): Content-Range is set exactly when the span is not the whole
\* resource; and when the part returned by Range() is not revalidated to
\* 304, marshals without error and has a non-empty body, the status is 206
\* if the span is a strict subset of [0, Total-1] and 200 otherwise.
C5_PartialStatus ==
    RangeServed
    => /\ (SentHeader(w)["Content-Range"] # <<>>) <=> ~IsWhole(ServedRange)
       /\ SentHeader(w)["Content-Range"] # <<>>
            => SentHeader(w)["Content-Range"]
                 = <<ContentRangeString(ServedRange)>>
       /\ LET part == env.op.resource.partial
          IN  (~Revalidates(req, part) /\ ~part.marshalErr /\ part.body # <<>>)
              => Status(w) = IF IsStrictSubset(ServedRange)
                             THEN StatusPartialContent
                             ELSE StatusOK

\* A strict part served with 206, and a range covering the whole resource
\* served with 200 and no Content-Range.
C5_Witness ==
    /\ RangeServed
    /\ IsStrictSubset(ServedRange)
    /\ Status(w) = StatusPartialContent
    /\ SentHeader(w)["Content-Range"] # <<>>

C5_WitnessWhole ==
    /\ RangeServed
    /\ IsWhole(ServedRange)
    /\ Status(w) = StatusOK
    /\ SentHeader(w)["Content-Range"] = <<>>

\* C6: every response to a GET or HEAD for which Get returned a Ranger
\* carries Accept-Ranges with the joined Units() of the resource, on every
\* path.
C6_AcceptRanges ==
    (Done /\ IsRead(req) /\ GotResource /\ env.op.resource.ranger)
    => SentHeader(w)["Accept-Ranges"]
         = <<Join(env.op.resource.units, ", ")>>

\* The paths of C6: the error of adjust, the error of Range(), a 304, a
\* partial response, and a fall-back to the full resource.
C6_Witness ==
    /\ Done /\ IsRead(req) /\ GotResource /\ env.op.resource.ranger
    /\ Status(w) = StatusRequestedRangeNotSatisfiable
    /\ SentHeader(w)["Accept-Ranges"] # <<>>

C6_WitnessNotModified ==
    /\ Done /\ IsRead(req) /\ GotResource /\ env.op.resource.ranger
    /\ Status(w) = StatusNotModified
    /\ SentHeader(w)["Accept-Ranges"] # <<>>

C6_WitnessFallback ==
    /\ Done /\ IsRead(req) /\ GotResource /\ env.op.resource.ranger
    /\ req.header["Range"] = <<"x">>
    /\ Status(w) = StatusOK
    /\ SentHeader(w)["Accept-Ranges"] # <<>>

\* The write conflict of section 4.3: If-Unmodified-Since is present, parses
\* and is strictly earlier than the modification time, or If-Match is
\* present and differs from the ETag.
Conflict(res, r) ==
    LET ius == r.header["If-Unmodified-Since"]
        im == r.header["If-Match"]
    IN  \/ ius # <<>> /\ ~ParseTime(ius).err
             /\ ParseTime(ius).t < res.lastModified
        \/ im # <<>> /\ im # res.etag

\* C7: ValidateConditions returns true exactly on a write conflict, false
\* when neither header is present, and a second call on the same resource
\* and request returns the same verdict.
C7_ValidateConditions ==
    /\ \A i \in 1..Len(verdicts) :
         verdicts[i] = Conflict(env.op.resource, req)
    /\ \A i \in 1..Len(verdicts) :
         (req.header["If-Unmodified-Since"] = <<>>
            /\ req.header["If-Match"] = <<>>) => verdicts[i] = FALSE
    /\ Len(verdicts) = 2 => verdicts[1] = verdicts[2]

\* Two calls reporting a conflict that only the date causes.
C7_Witness ==
    /\ Len(verdicts) = 2 /\ verdicts[1] /\ verdicts[2]
    /\ req.header["If-Match"] = <<>>
    /\ req.header["If-Unmodified-Since"] = DateHeader

\* Two calls reporting no conflict for a date equal to the modification
\* time and a matching If-Match.
C7_WitnessNoConflict ==
    /\ Len(verdicts) = 2 /\ ~verdicts[1] /\ ~verdicts[2]
    /\ req.header["If-Match"] = <<"a">>
    /\ req.header["If-Unmodified-Since"] = DateHeader
    /\ env.op.resource.lastModified = TicksPerSec

\* The request's method is bound to an operation of the endpoint.
Dispatched == ToUpper(req.method) \in ImplementedMethods(endpoint)

\* C8 (as claimed): a resource returned by Get, Put, Patch or Post that is
\* not answered 304, is not a direct writer and marshals without error gets
\* 201 for POST, else 204 for an empty body, else 206 when Content-Range is
\* set, else 200.
C8_StatusPriority ==
    (Done /\ Dispatched /\ ToUpper(req.method) # Delete /\ GotResource
       /\ ~Revalidates(req, env.op.resource)
       /\ ~env.op.resource.handler /\ ~env.op.resource.marshalErr)
    => Status(w) =
         IF ToUpper(req.method) = Post THEN StatusCreated
         ELSE IF env.op.resource.body = <<>> THEN StatusNoContent
         ELSE IF w.header["Content-Range"] # <<>> THEN StatusPartialContent
         ELSE StatusOK

\* C9: a successful operation that returns a nil resource is answered with
\* no body and 204 for GET and HEAD, 200 for PATCH and PUT, 201 for POST; a
\* successful Delete is answered 204 with no body.
C9_NilResource ==
    (Done /\ Dispatched /\ env.op.err = NoError
       /\ (env.op.isNil \/ ToUpper(req.method) = Delete))
    => /\ w.body = <<>>
       /\ Len(w.codes) = 1
       /\ w.codes[1] =
            CASE ToUpper(req.method) \in {Get, MethodHead} -> StatusNoContent
              [] ToUpper(req.method) \in {Patch, Put} -> StatusOK
              [] ToUpper(req.method) = Post -> StatusCreated
              [] ToUpper(req.method) = Delete -> StatusNoContent

C9_Witness ==
    /\ Done /\ req.method = Patch /\ Dispatched
    /\ env.op.err = NoError /\ env.op.isNil
    /\ w.codes = <<StatusOK>>

C9_WitnessPost ==
    /\ Done /\ req.method = Post /\ Dispatched
    /\ env.op.err = NoError /\ env.op.isNil
    /\ w.codes = <<StatusCreated>>
    /\ SentHeader(w)["Location"] = <<<<"u">>>>

C9_WitnessDelete ==
    /\ Done /\ req.method = Delete /\ Dispatched
    /\ env.op.err = NoError
    /\ w.codes = <<StatusNoContent>>

\* The request carries a validator that holds for resource res.
Validates(r, res) ==
    \/ LET t == ParseTime(r.header["If-Modified-Since"])
       IN  ~t.err /\ t.t >= res.lastModified
    \/ r.header["If-None-Match"] # <<>> /\ res.etag \in NoneMatchEntries(r)

\* C10 (as claimed): when If-Modified-Since or If-None-Match validates
\* against the resource returned by Get, the response is 304 and neither
\* adjust, Range() nor the marshaler was invoked.
C10_RevalidationFirst ==
    (Done /\ IsRead(req) /\ GotResource /\ Validates(req, env.op.resource))
    => /\ Status(w) = StatusNotModified
       /\ ~Invoked(w, "adjust")
       /\ ~Invoked(w, "Range")
       /\ ~Invoked(w, "Marshal")

\* x is in sequence q.
InSeq(q, x) == \E i \in 1..Len(q) : q[i] = x

\* C11 (as claimed): a response that bears the representation of a resource
\* returned by Get, Put, Patch or Post, and is not answered 304, is emitted
\* with Vary: Accept, Last-Modified, ETag and Expires, these being set
\* before the status line is written.
C11_HeadersBeforeStatus ==
    (Done /\ Dispatched /\ ToUpper(req.method) # Delete /\ GotResource
       /\ ~Revalidates(req, env.op.resource)
       /\ ~env.op.resource.marshalErr)
    => /\ InSeq(SentHeader(w)["Vary"], "Accept")
       /\ SentHeader(w)["Last-Modified"]
            = <<FormatTime(env.op.resource.lastModified)>>
       /\ SentHeader(w)["ETag"] = <<env.op.resource.etag>>
       /\ SentHeader(w)["Expires"]
            = <<FormatTime(env.now + env.op.resource.ttl)>>

CanonicalMethods == <<MethodHead, Get, Patch, Put, Post, Delete>>

\* C12: AllowedMethods lists, in the order HEAD, GET, PATCH, PUT, POST,
\* DELETE, the methods the endpoint implements; a request with one of these
\* six methods reaches an operation of the endpoint exactly when its method
\* is in the list, and is answered 405 or 404 by the dispatcher otherwise;
\* HEAD is listed exactly when GET is.
C12_AllowedMethods ==
    LET a == AllowedMethods(endpoint)
    IN  /\ a = SelectSeq(CanonicalMethods,
                         LAMBDA m : m \in ImplementedMethods(endpoint))
        /\ InSeq(a, MethodHead) <=> InSeq(a, Get)
        /\ (Done /\ InSeq(CanonicalMethods, req.method))
           => /\ InSeq(a, req.method) <=> ~NoOperationInvoked(w)
              /\ ~InSeq(a, req.method)
                   => Status(w) = IF Len(a) > 0 THEN StatusMethodNotAllowed
                                  ELSE StatusNotFound

C12_Witness ==
    /\ Done /\ endpoint = {"Getter", "Deleter"}
    /\ AllowedMethods(endpoint) = <<MethodHead, Get, Delete>>
    /\ req.method = Delete /\ Invoked(w, "Delete")

C12_WitnessRefused ==
    /\ Done /\ endpoint = {"Getter", "Deleter"}
    /\ req.method = Put /\ NoOperationInvoked(w)
    /\ Status(w) = StatusMethodNotAllowed

\* Get returned a Ranger for a GET request.
GetOnRanger ==
    Done /\ req.method = Get /\ GotResource /\ env.op.resource.ranger

\* The Range header of r parses and is a valid range of the Ranger.
ValidRange(r, ranger) ==
    /\ ~ParseRange(r.header["Range"]).err
    /\ ~validateFails(ParseRange(r.header["Range"]).rg, ranger)

\* The same request without the headers named.
Without(r, names) ==
    [r EXCEPT !.header = [h \in RequestHeaders |->
                             IF h \in names THEN <<>> ELSE r.header[h]]]

\* What the client receives: the status, the headers and the body.
Emitted(x) == <<Status(x), SentHeader(x), x.body>>

\* The If-Range value of r is a date equal to the modification time of res,
\* or a string equal to its ETag.
IfRangeMatches(r, res) ==
    LET raw == r.header["If-Range"]
    IN  \/ ~ParseTime(raw).err /\ ParseTime(raw).t = res.lastModified
        \/ raw = res.etag

\* C13 (as claimed): with a valid Range and a non-empty If-Range that is
\* neither a date equal to LastModified nor the ETag, the full resource is
\* written as if the request had no Range header and Range() is not invoked.
C13_IfRange ==
    (GetOnRanger /\ ValidRange(req, env.op.resource)
       /\ req.header["If-Range"] # <<>>
       /\ ~IfRangeMatches(req, env.op.resource))
    => /\ ~Invoked(w, "Range")
       /\ Emitted(w) = Emitted(Response(env.op, Without(req, {"Range"})))

\* Get returned a Ranger for a GET or HEAD request.
ReadOnRanger ==
    Done /\ IsRead(req) /\ GotResource /\ env.op.resource.ranger

\* C14 (as claimed): Vary: Range is set on the response to every GET or
\* HEAD on a Ranger that carries a Range header, also when handling fell
\* back to the full resource (responses that report an error or answer a
\* revalidation with 304 left aside).
C14_VaryRangeWhenAttempted ==
    (ReadOnRanger /\ req.header["Range"] # <<>> /\ ~IsErrorResponse(w)
       /\ Status(w) # StatusNotModified)
    => InSeq(SentHeader(w)["Vary"], "Range")

\* C14 (amended): Vary: Range is set exactly when Range() was invoked and
\* returned no error; a response that fell back to the full resource, or
\* that reports the error of adjust or Range(), does not carry it.
C14_VaryRangeWhenServed ==
    ReadOnRanger
    => (InSeq(SentHeader(w)["Vary"], "Range")
          <=> (Invoked(w, "Range") /\ ~env.op.resource.rangeErr))

C14_Witness ==
    /\ ReadOnRanger /\ Invoked(w, "Range")
    /\ Status(w) = StatusPartialContent
    /\ SentHeader(w)["Vary"] = <<"Range", "Accept">>

\* A fall-back because of a failed If-Range precondition.
C14_WitnessFallback ==
    /\ ReadOnRanger /\ ValidRange(req, env.op.resource)
    /\ req.header["If-Range"] = <<"z">>
    /\ Status(w) = StatusOK
    /\ SentHeader(w)["Vary"] = <<"Accept">>

\* C15: for a GET on a Ranger, a Range header that fails to parse or to
\* validate against Units() and Count() is ignored: neither adjust nor
\* Range() is invoked, no Content-Range is set, and the status, the headers
\* and the body are those of the same request without the Range header.
C15_InvalidRangeIgnored ==
    (GetOnRanger /\ req.header["Range"] # <<>>
       /\ ~ValidRange(req, env.op.resource))
    => /\ ~Invoked(w, "adjust")
       /\ ~Invoked(w, "Range")
       /\ w.header["Content-Range"] = <<>>
       /\ Status(w) # StatusRequestedRangeNotSatisfiable
       /\ Emitted(w) = Emitted(Response(env.op, Without(req, {"Range"})))
       /\ (~Revalidates(req, env.op.resource) /\ ~env.op.resource.marshalErr)
          => (Status(w) = StatusOK /\ w.body = env.op.resource.body)

\* A span beyond Count() answered with the full resource.
C15_Witness ==
    /\ GetOnRanger
    /\ req.header["Range"] = <<"b", "=", "0", "-", "9">>
    /\ Status(w) = StatusOK /\ w.body = <<"x">>
    /\ w.calls = <<"Get", "Marshal">>

\* An unparsable header and an unsupported unit, likewise.
C15_WitnessUnparsable ==
    /\ GetOnRanger /\ req.header["Range"] = <<"x">>
    /\ Status(w) = StatusOK /\ w.body = <<"x">>

C15_WitnessUnit ==
    /\ GetOnRanger /\ req.header["Range"] = <<"i", "=", "0", "-", "0">>
    /\ Status(w) = StatusOK /\ w.body = <<"x">>

\* The range handling of the request goes ahead: the Range header is valid
\* and the If-Range precondition, if any, holds.
RangeAccepted ==
    /\ GetOnRanger /\ ValidRange(req, env.op.resource)
    /\ (req.header["If-Range"] = <<>> \/ IfRangeMatches(req, env.op.resource))

\* The error of adjust for the request, NoError when it succeeds.
AdjustError ==
    adjust(ParseRange(req.header["Range"]).rg, env.op.resource).err

\* The response is that of error e and nothing else: its status and its
\* description, no representation, no validators, no Content-Range.
IsResponseOf(x, e) ==
    /\ x.codes = <<e.code>>
    /\ x.body = ErrorBody(e)
    /\ ~Invoked(x, "Marshal")
    /\ x.header["Content-Range"] = <<>>
    /\ x.header["ETag"] = <<>>

\* C16: once the Range header is accepted, an error of adjust or of Range()
\* is answered with that error's response, with no representation and no
\* Content-Range; after an error of adjust, Range() is not invoked.
C16_RangeErrors ==
    RangeAccepted
    => /\ AdjustError # NoError
            => (IsResponseOf(w, AdjustError) /\ ~Invoked(w, "Range"))
       /\ (AdjustError = NoError /\ env.op.resource.rangeErr)
            => (IsResponseOf(w, InternalServerError) /\ Invoked(w, "Range"))

C16_Witness ==
    /\ RangeAccepted /\ AdjustError # NoError
    /\ Status(w) = StatusRequestedRangeNotSatisfiable
    /\ w.calls = <<"Get", "adjust">>

C16_WitnessRange ==
    /\ RangeAccepted /\ env.op.resource.rangeErr
    /\ Status(w) = StatusInternalServerError
    /\ w.calls = <<"Get", "adjust", "Range">>

\* The error that ends the request: the error of the operation, or the
\* error of the marshaler for a resource that reaches it; NoError otherwise.
TerminalError ==
    IF env.op.err # NoError
    THEN env.op.err
    ELSE IF /\ ToUpper(req.method) # Delete /\ ~env.op.isNil
            /\ ~env.op.resource.handler
            /\ ~Revalidates(req, env.op.resource)
            /\ env.op.resource.marshalErr
         THEN NotAcceptable
         ELSE NoError

\* C17 (as claimed): when the operation or the marshaler returns an error,
\* the status emitted is the one of the error, the body is its description,
\* and no other status is written, for every method.
C17_ErrorsTerminal ==
    (Done /\ Dispatched /\ TerminalError # NoError)
    => /\ Status(w) = TerminalError.code
       /\ w.body = ErrorBody(TerminalError)
       /\ w.codes = <<TerminalError.code>>

\* C18 (as claimed): for every endpoint and every method (in its canonical
\* spelling), unless the resource writes the response itself, the status is
\* written exactly once, and no header is set after it has been written.
C18_StatusOnce ==
    (Done /\ req.method = ToUpper(req.method)
       /\ ~(GotResource /\ env.op.resource.handler))
    => /\ Len(w.codes) = 1
       /\ w.header = w.sent

\* C19 (as claimed): a request with neither If-Modified-Since nor
\* If-None-Match is never answered 304, whatever the resource (its ETag may
\* be empty) and the method.
C19_No304WithoutValidators ==
    (Done /\ req.header["If-Modified-Since"] = <<>>
       /\ req.header["If-None-Match"] = <<>>)
    => Status(w) # StatusNotModified

\* The same request with header name set to value.
WithHeader(r, name, value) == [r EXCEPT !.header[name] = value]

\* C20 (as claimed): when a GET returned a representation with
\* Last-Modified and ETag headers, the
\* same GET on the unchanged resource with If-Modified-Since set to that
\* Last-Modified, or with If-None-Match set to that ETag, is answered 304,
\* with or without an honoured Range header.
C20_ValidatorRoundTrip ==
    (Done /\ req.method = Get /\ GotResource /\ ~IsErrorResponse(w)
       /\ SentHeader(w)["Last-Modified"] # <<>>
       /\ SentHeader(w)["ETag"] # <<>>)
    => /\ Status(Response(env.op,
                          WithHeader(req, "If-Modified-Since",
                                     SentHeader(w)["Last-Modified"][1])))
            = StatusNotModified
       /\ Status(Response(env.op,
                          WithHeader(req, "If-None-Match",
                                     SentHeader(w)["ETag"][1])))
            = StatusNotModified

====
